---------------------------- MODULE Spec2Model ----------------------------
(***************************************************************************)
(* A model of NanoPressure.py: one host process that resolves a BLE        *)
(* pressure sensor, connects to it, optionally sets the readout interval,  *)
(* and then either streams notifications (scan mode) or drains the         *)
(* device's history buffer (download mode).                                *)
(*                                                                         *)
(* The host is a single asyncio task.  Every `await` on the BLE client is  *)
(* modelled as two steps: the operation is issued (op changes from "none"  *)
(* to the operation's name) and later completes or fails.  While the task  *)
(* is suspended the event loop may run the notification callback, the      *)
(* device may append samples to its buffer, and the operating system may   *)
(* deliver SIGINT or SIGTERM.                                              *)
(*                                                                         *)
(* Times in seconds are fixed-point numbers [s |-> seconds, ms |-> 0..999] *)
(* so that the division by 1000 of lines 168 and 176 is computed.          *)
(***************************************************************************)
EXTENDS Integers, Sequences, FiniteSets, TLC

(***************************************************************************)
(* Bounds of the model                                                     *)
(***************************************************************************)
MaxAppends == 2      \* entries the device appends over the whole behaviour
MaxNotif   == 2      \* notifications delivered to the callback in one run
MaxSignals == 1      \* signals delivered to the process in one run
MaxRuns    == 2      \* invocations of the program

(***************************************************************************)
(* Program constants                                                       *)
(***************************************************************************)
BufferCapacity == 16384      \* line 115: size of the device's ring buffer

Modes      == {"scan", "download"}                 \* line 197: choices
Intervals  == {<<>>, <<0>>, <<2>>}                 \* line 205: None, 0, n
Devices    == {"nano1", "nano2"}                   \* peripherals in range
Addresses  == {"", "nano1"}                        \* line 199: --addr, "" if absent
Rssis      == {-80, -70, -60}                      \* advertised signal strengths
MinRssis   == {-80, -70}                           \* line 201: --rssi
ArgSets    == {a \in [mode : Modes, interval : Intervals, overwrite : BOOLEAN,
                      addr : Addresses, rssi : MinRssis] :
                  /\ a.mode = "scan" => ~a.overwrite   \* -o is read at line 181
                  /\ a.addr # "" => a.rssi = -80       \* --rssi is read at line 90
                  /\ a.addr = "" => /\ a.interval = <<>> /\ ~a.overwrite
                                    /\ a.mode = "download" => a.rssi = -80}
Signals    == {"SIGINT", "SIGTERM"}                \* line 10
ClockSteps == {500}                                \* device ms between samples
LocalTimes == {[s |-> 1000, ms |-> 0], [s |-> 1000, ms |-> 600]}

Ended == {"exited", "killed"}

VARIABLES
    \* ---- the host process ----
    run,          \* number of this invocation of the program
    args,         \* argparse.Namespace: [mode, interval, overwrite, addr, rssi]
    device,       \* local `device` of loop(), "" while there is none
    devices,      \* local `devices` of discoverDevice: pairs <<device, rssi>>
    curr_counts,  \* local `curr_counts` (line 114), -1 while unassigned
    pc,           \* position of the main task (the await it is at)
    op,           \* BLE operation in flight, "none" when there is none
    connected,    \* the BleakClient session is open
    sessions,     \* sessions opened in this run
    notifying,    \* scanPressureCallback is registered on pressureValue
    handlers,     \* loop.add_signal_handler was called for SIGINT, SIGTERM
    stopEvent,    \* asyncio.Event of line 133
    counts,       \* local `counts` of download mode
    i,            \* loop variable of line 154
    dataList,     \* local `dataList`
    localTime,    \* local `localTime` (line 166)
    data,         \* the numpy array after lines 174-178
    outfile,      \* args.filename: [kept |-> what it held before this run is
                  \* still there, rows |-> the rows this run wrote]
    nWrites,      \* times the output file was opened in this run
    remaining,    \* line 117: remaining buffer time, in tenths of a second
    cause,        \* the exception propagating out of loop(), "none" if none
    exitStatus,   \* process exit status, -1 while running
    log,          \* log records emitted in this run
    \* ---- the device ----
    devBuf,       \* unread history entries, oldest first
    devLog,       \* every entry the device ever appended
    devClock,     \* device clock, ms
    devInterval,  \* value of the interval characteristic
    \* ---- history of the run (observation only) ----
    trace,        \* positions whose BLE operation was issued, in order
    countsSeen,   \* values returned by readCounts, in order
    base,         \* Len(devLog) - Len(devBuf) at the first readCounts
    zeroAt,       \* Len(devLog) at the latest readCounts
    nTimeReads,   \* deviceTime reads completed
    timeSeen,     \* value of the deviceTime read, ms
    nNotif,       \* notifications processed by the callback
    notifAfterStop, \* of these, processed after stop_notify was issued
    nSignals,     \* signals delivered
    sigConn,      \* a signal was delivered while the session was open
    sigWait,      \* a signal was delivered while waiting on stopEvent
    stopFailed,   \* stop_notify failed
    emptiedAt     \* Len(devLog) when the previous run's drain observed a
                  \* count of 0, -1 if it did not

idVars    == <<run, args>>
locVars   == <<device, devices, curr_counts>>
sessVars  == <<connected, sessions, notifying, handlers, stopEvent>>
drainVars == <<counts, i, dataList, localTime, data, outfile, nWrites>>
endVars   == <<cause, exitStatus>>
hostVars  == <<idVars, locVars, pc, op, sessVars, drainVars, remaining, endVars, log>>
devVars   == <<devBuf, devLog, devClock, devInterval>>
drainHist == <<countsSeen, base, zeroAt, nTimeReads, timeSeen>>
scanHist  == <<nNotif, notifAfterStop, stopFailed>>
sigHist   == <<nSignals, sigConn, sigWait>>
histVars  == <<trace, drainHist, scanHist, sigHist, emptiedAt>>
vars == <<hostVars, devVars, histVars>>

(***************************************************************************)
(* Fixed-point seconds                                                     *)
(***************************************************************************)
\* x / 1000. : milliseconds to seconds (lines 168, 176)
MsToSeconds(x) == [s |-> x \div 1000, ms |-> x % 1000]

\* a + b on seconds (line 178)
SecAdd(a, b) ==
    [s |-> a.s + b.s + ((a.ms + b.ms) \div 1000), ms |-> (a.ms + b.ms) % 1000]

\* a - b on seconds (line 169)
SecSub(a, b) ==
    [s |-> a.s - b.s + ((a.ms - b.ms) \div 1000), ms |-> (a.ms - b.ms) % 1000]

\* a number of seconds as integer milliseconds
SecToMs(a) == a.s * 1000 + a.ms

NoTime == [s |-> 0, ms |-> 0]

(***************************************************************************)
(* The program's positions and the operation awaited at each               *)
(***************************************************************************)
OpAt(p) ==
    CASE p = "getDevice"      -> "find_device_by_address"
      [] p = "discover"       -> "discover"
      [] p = "connect"        -> "connect"
      [] p = "readInterval"   -> "read_interval"
      [] p = "writeInterval"  -> "write_interval"
      [] p = "readCurrCounts" -> "read_pressureCounts"
      [] p = "startNotify"    -> "start_notify"
      [] p = "stopNotify"     -> "stop_notify"
      [] p = "readCounts"     -> "read_pressureCounts"
      [] p = "readHistory"    -> "read_pressureHistory"
      [] p = "readDeviceTime" -> "read_deviceTime"
      [] p = "disconnect"     -> "disconnect"
      [] OTHER                -> "none"

\* the awaits on client.read_gatt_char / write_gatt_char / start_notify /
\* stop_notify: operations that are carried out over the open session
GattPcs == {"readInterval", "writeInterval", "readCurrCounts", "startNotify",
            "stopNotify", "readCounts", "readHistory", "readDeviceTime"}

(***************************************************************************)
(* Pure helpers of the main task                                           *)
(***************************************************************************)
\* line 116: intv = args.interval if args.interval else 0.1, in tenths of s
IntvTenths(v) == IF v # 0 THEN v * 10 ELSE 1

\* lines 115-117: counts_left * intv, in tenths of a second
RemainingTenths(c, v) == (BufferCapacity - c) * IntvTenths(v)

\* (mutant) download mode reads a history entry before the first count
ModeStartReadFirst(mode) == IF mode = "scan" THEN "startNotify" ELSE "readHistory"

\* line 87: if args.addr
StartPc(a) == IF a.addr # "" THEN "getDevice" ELSE "discover"

\* (mutant) a device whose signal strength equals the minimum is kept
PassesRssiOrEqual(rssi, minimum_rssi) == rssi >= minimum_rssi

\* line 29: adv.rssi > minimum_rssi
PassesRssi(rssi, minimum_rssi) == rssi > minimum_rssi

\* line 29: the devices that are kept
Filter(ds, minimum_rssi) == {e \in ds : PassesRssi(e[2], minimum_rssi)}

\* (mutant) the download branch is taken whatever the mode
ModeStartIgnoresMode(mode) == "readCounts"

\* lines 122, 140: the branch on args.mode
ModeStart(mode) == IF mode = "scan" THEN "startNotify" ELSE "readCounts"

\* (mutant) the branch tests the interval's truth value, so that 0 is taken
\* as no request
AfterConnectTruthy(a) ==
    IF a.interval # <<>> /\ a.interval[1] # 0 THEN "readInterval"
                                               ELSE ModeStart(a.mode)

\* line 106: if args.interval is not None
AfterConnect(a) == IF a.interval # <<>> THEN "readInterval" ELSE ModeStart(a.mode)

\* (mutant) the loop is left while one entry is still unread
LoopCondMoreThanOne(c) == c > 1

\* line 151: while counts > 0
LoopCond(c) == c > 0

\* (mutant) the batch stops one read short
BatchDoneShort(k, c) == k >= c - 1

\* line 154: for i in range(counts) is exhausted after k iterations
BatchDone(k, c) == k >= c

\* (mutant) the sample is put in front of the list
PrependSample(list, sample) == <<sample>> \o list

\* line 156: dataList += [struct.unpack('<fI', data)]
AppendSample(list, sample) == Append(list, sample)

\* (mutant) the wait also ends once a notification has been processed
StopRequestedOrSample == stopEvent \/ nNotif >= 1

\* line 136: await stopEvent.wait() returns
StopRequested == stopEvent

\* (mutant) the offset is added to the timestamp still in milliseconds
ReconcileNoConversion(list, deltaTime) ==
    [k \in 1..Len(list) |->
        <<list[k][1], SecAdd([s |-> list[k][2], ms |-> 0], deltaTime)>>]

\* lines 174-178: rows (pressure, t/1000 + deltaTime)
Reconcile(list, deltaTime) ==
    [k \in 1..Len(list) |->
        <<list[k][1], SecAdd(MsToSeconds(list[k][2]), deltaTime)>>]

\* line 181: open(args.filename, 'w' if args.overwrite else 'a'), line 182
WriteFile(old, rows, overwrite) ==
    IF overwrite THEN [kept |-> FALSE, rows |-> rows]
                 ELSE [kept |-> old.kept, rows |-> old.rows \o rows]

\* exit status of the interpreter for an exception leaving asyncio.run
StatusOf(c) == IF c = "none" THEN 0 ELSE IF c = "SIGINT" THEN 130 ELSE 1

(***************************************************************************)
(* The device: a FIFO of unread history entries                            *)
(***************************************************************************)
\* what a pressureHistory read returns: the oldest unread entry
HistoryEntry == IF devBuf # <<>> THEN Head(devBuf) ELSE <<0, 0>>

\* what a pressureCounts read returns: the number of unread entries
CountValue == Len(devBuf)

\* the pressure the sensor shows when the n-th entry is taken
SensorPressure(n) == IF n % 2 = 1 THEN 101325 ELSE 99000

\* the device samples the sensor and appends an entry (an entry appended
\* while no host process runs is one appended before the next run connects)
DeviceAppend ==
    /\ pc \notin Ended
    /\ Len(devLog) < MaxAppends
    /\ Len(devBuf) < BufferCapacity
    /\ \E p \in {SensorPressure(Len(devLog) + 1)}, step \in ClockSteps :
          /\ devClock' = devClock + step
          /\ devBuf' = Append(devBuf, <<p, devClock + step>>)
          /\ devLog' = Append(devLog, <<p, devClock + step>>)
    /\ UNCHANGED <<devInterval, hostVars, histVars>>

(***************************************************************************)
(* Initial state: the program is started against a device that has just    *)
(* booted                                                                  *)
(***************************************************************************)
Init ==
    /\ run = 1
    /\ args \in ArgSets
    /\ device = "" /\ devices = {} /\ curr_counts = -1
    /\ pc = StartPc(args) /\ op = "none"
    /\ connected = FALSE /\ sessions = 0
    /\ notifying = FALSE /\ handlers = FALSE /\ stopEvent = FALSE
    /\ counts = 0 /\ i = 0 /\ dataList = <<>>
    /\ localTime = NoTime /\ data = <<>>
    /\ outfile = [kept |-> TRUE, rows |-> <<>>] /\ nWrites = 0
    /\ remaining = -1
    /\ cause = "none" /\ exitStatus = -1 /\ log = {}
    /\ devBuf = <<>> /\ devLog = <<>> /\ devClock = 0 /\ devInterval = 1
    /\ trace = <<>> /\ countsSeen = <<>>
    /\ base = 0 /\ zeroAt = -1
    /\ nTimeReads = 0 /\ timeSeen = 0
    /\ nNotif = 0 /\ notifAfterStop = 0
    /\ nSignals = 0 /\ sigConn = FALSE /\ sigWait = FALSE
    /\ stopFailed = FALSE /\ emptiedAt = -1

\* the operator starts the program again after it has ended; the device
\* stays as it is, the link of a killed process is dropped, and the file's
\* content becomes the content from before the new run
Rerun ==
    /\ pc \in Ended
    /\ run < MaxRuns
    /\ run' = run + 1
    /\ args' \in ArgSets
    /\ device' = "" /\ devices' = {} /\ curr_counts' = -1
    /\ pc' = StartPc(args') /\ op' = "none"
    /\ connected' = FALSE /\ sessions' = 0
    /\ notifying' = FALSE /\ handlers' = FALSE /\ stopEvent' = FALSE
    /\ counts' = 0 /\ i' = 0 /\ dataList' = <<>>
    /\ localTime' = NoTime /\ data' = <<>>
    /\ outfile' = [kept |-> TRUE, rows |-> <<>>] /\ nWrites' = 0
    /\ remaining' = -1
    /\ cause' = "none" /\ exitStatus' = -1 /\ log' = {}
    /\ trace' = <<>> /\ countsSeen' = <<>>
    /\ base' = 0 /\ zeroAt' = -1
    /\ nTimeReads' = 0 /\ timeSeen' = 0
    /\ nNotif' = 0 /\ notifAfterStop' = 0
    /\ nSignals' = 0 /\ sigConn' = FALSE /\ sigWait' = FALSE
    /\ stopFailed' = FALSE
    /\ emptiedAt' = IF countsSeen # <<>> /\ countsSeen[Len(countsSeen)] = 0
                    THEN zeroAt ELSE -1
    /\ UNCHANGED devVars


(***************************************************************************)
(* Exceptions                                                              *)
(***************************************************************************)
\* (mutant) the exception leaves the run without the session being closed
RaiseNoTeardown(c) ==
    /\ pc' = "exited"
    /\ op' = "none"
    /\ cause' = c
    /\ exitStatus' = 1

\* an exception raised in the body of `async with BleakClient(...)`
\* (line 96): BleakClient.__aexit__ disconnects before it propagates
RaiseInSession(c) ==
    /\ pc' = "disconnect"
    /\ op' = "none"
    /\ cause' = c
    /\ exitStatus' = exitStatus

\* an exception raised outside the `async with` block, or one that ends
\* the task inside __aexit__: it leaves loop() and asyncio.run (line 225)
RaiseOutside(c) ==
    /\ pc' = "exited"
    /\ op' = "none"
    /\ cause' = c
    /\ exitStatus' = StatusOf(c)

(***************************************************************************)
(* The main task, lines 76-186                                             *)
(***************************************************************************)
\* (mutant) an operation is issued without the previous one being awaited
MayIssueAlways == TRUE

\* every BLE call of the program is awaited by the one main task, which
\* reaches its next call only when the await has returned or raised
MayIssue == op = "none"

\* the task reaches an await on the BLE client and issues the operation
Issue ==
    /\ pc \notin Ended
    /\ MayIssue
    /\ OpAt(pc) # "none"
    /\ op' = OpAt(pc)
    /\ trace' = Append(trace, pc)
    /\ UNCHANGED <<idVars, locVars, pc, sessVars, drainVars, remaining, endVars, log,
                   devVars, drainHist, scanHist, sigHist, emptiedAt>>

\* (mutant) the lookup is tried again when no device was found
RetryNotFound ==
    /\ pc' = pc
    /\ op' = "none"
    /\ UNCHANGED endVars

\* lines 37-38, 57-58: log.error and sys.exit(1)
ExitNotFound == RaiseOutside("SystemExit")

\* lines 54, 60, 88-93: find_device_by_address returns the device
GetDeviceOk ==
    /\ pc = "getDevice" /\ op = "find_device_by_address"
    /\ device' = args.addr
    /\ pc' = "connect" /\ op' = "none"
    /\ log' = log \cup {"using"}
    /\ UNCHANGED <<idVars, devices, curr_counts, sessVars, drainVars,
                   remaining, endVars, devVars, histVars>>

\* lines 54-58: find_device_by_address returns None after the timeout
GetDeviceFail ==
    /\ pc = "getDevice" /\ op = "find_device_by_address"
    /\ ExitNotFound
    /\ log' = log \cup {"notfound"}
    /\ UNCHANGED <<idVars, locVars, sessVars, drainVars, remaining, devVars,
                   histVars>>

\* line 26: during the scan a device is heard advertising
Advertise ==
    /\ pc = "discover" /\ op = "discover"
    /\ \E d \in Devices, r \in Rssis :
          /\ \A e \in devices : e[1] # d
          /\ devices' = devices \cup {<<d, r>>}
    /\ UNCHANGED <<idVars, device, curr_counts, pc, op, sessVars, drainVars,
                   remaining, endVars, log, devVars, histVars>>

\* lines 26-50 (and 90-93): the scan ends after the timeout; the devices
\* are filtered; none left: exit, one left: it is returned, several: the
\* menu is shown
DiscoverDone ==
    /\ pc = "discover" /\ op = "discover"
    /\ LET found == Filter(devices, args.rssi) IN
          IF found = {}
             THEN /\ ExitNotFound
                  /\ log' = log \cup {"notfound"}
                  /\ UNCHANGED <<device, devices>>
             ELSE IF Cardinality(found) = 1
                     THEN /\ device' = (CHOOSE e \in found : TRUE)[1]
                          /\ devices' = {}
                          /\ pc' = "connect" /\ op' = "none"
                          /\ log' = log \cup {"using"}
                          /\ UNCHANGED endVars
                     ELSE /\ devices' = found
                          /\ pc' = "select" /\ op' = "none"
                          /\ UNCHANGED <<device, log, endVars>>
    /\ UNCHANGED <<idVars, curr_counts, sessVars, drainVars, remaining,
                   devVars, histVars>>

\* lines 45-50 (and 92-93): the operator picks an entry of the menu
Select ==
    /\ pc = "select"
    /\ \E e \in devices : device' = e[1]
    /\ devices' = {}
    /\ pc' = "connect"
    /\ log' = log \cup {"using"}
    /\ UNCHANGED <<idVars, curr_counts, op, sessVars, drainVars, remaining,
                   endVars, devVars, histVars>>

\* lines 47-48: the operator leaves the menu without a choice, show()
\* returns None and devlist[None] raises TypeError
SelectCancel ==
    /\ pc = "select"
    /\ RaiseOutside("TypeError")
    /\ UNCHANGED <<idVars, locVars, sessVars, drainVars, remaining, log,
                   devVars, histVars>>

\* lines 96-97: BleakClient.__aenter__ connects
ConnectOk ==
    /\ pc = "connect" /\ op = "connect"
    /\ connected' = TRUE
    /\ sessions' = sessions + 1
    /\ pc' = AfterConnect(args) /\ op' = "none"
    /\ log' = log \cup {"connected"}
    /\ UNCHANGED <<idVars, locVars, notifying, handlers, stopEvent, drainVars,
                   remaining, endVars, devVars, histVars>>

\* line 96: the connection is not established within the timeout
ConnectFail ==
    /\ pc = "connect" /\ op = "connect"
    /\ RaiseOutside("connect")
    /\ UNCHANGED <<idVars, locVars, sessVars, drainVars, remaining, log, devVars,
                   histVars>>

\* lines 107-109
ReadIntervalOk ==
    /\ pc = "readInterval" /\ op = "read_interval"
    /\ pc' = "writeInterval" /\ op' = "none"
    /\ UNCHANGED <<idVars, locVars, sessVars, drainVars, remaining, endVars, log,
                   devVars, histVars>>

\* line 110: the write is acknowledged (response=True)
WriteIntervalOk ==
    /\ pc = "writeInterval" /\ op = "write_interval"
    /\ devInterval' = args.interval[1]
    /\ pc' = "readCurrCounts" /\ op' = "none"
    /\ UNCHANGED <<idVars, locVars, sessVars, drainVars, remaining, endVars, log,
                   devBuf, devLog, devClock, histVars>>

\* lines 113-117
ReadCurrCountsOk ==
    /\ pc = "readCurrCounts" /\ op = "read_pressureCounts"
    /\ curr_counts' = CountValue
    /\ remaining' = RemainingTenths(CountValue, args.interval[1])
    /\ log' = log \cup {"remaining"}
    /\ pc' = ModeStart(args.mode) /\ op' = "none"
    /\ UNCHANGED <<idVars, device, devices, sessVars, drainVars, endVars, devVars, histVars>>

\* (mutant) when an operation raises, the samples read so far are written
GattFailSavesPartial ==
    /\ pc \in GattPcs /\ op = OpAt(pc)
    /\ connected
    /\ RaiseInSession("gatt")
    /\ stopFailed' = (stopFailed \/ pc = "stopNotify")
    /\ outfile' = WriteFile(outfile, dataList, args.overwrite)
    /\ nWrites' = nWrites + 1
    /\ UNCHANGED <<idVars, locVars, sessVars, counts, i, dataList, localTime,
                   data, remaining, log, devVars, trace, drainHist, nNotif,
                   notifAfterStop, sigHist, emptiedAt>>

\* a read, a write, start_notify or stop_notify raises
GattFail ==
    /\ pc \in GattPcs /\ op = OpAt(pc)
    /\ connected
    /\ RaiseInSession("gatt")
    /\ stopFailed' = (stopFailed \/ pc = "stopNotify")
    /\ UNCHANGED <<idVars, locVars, sessVars, drainVars, remaining, log, devVars,
                   trace, drainHist, nNotif, notifAfterStop, sigHist,
                   emptiedAt>>

\* lines 129-135: start_notify returns, the signal handlers are installed
StartNotifyOk ==
    /\ pc = "startNotify" /\ op = "start_notify"
    /\ notifying' = TRUE
    /\ handlers' = TRUE
    /\ pc' = "waitStop" /\ op' = "none"
    /\ UNCHANGED <<idVars, locVars, connected, sessions, stopEvent, drainVars,
                   remaining, endVars, log, devVars, histVars>>

\* lines 63-66: the event loop runs scanPressureCallback for a notification
\* while the main task is suspended
Notify ==
    /\ pc \notin Ended
    /\ notifying /\ connected
    /\ op # "none" \/ pc = "waitStop"
    /\ nNotif < MaxNotif
    /\ nNotif' = nNotif + 1
    /\ notifAfterStop' = notifAfterStop +
          (IF \E k \in 1..Len(trace) : trace[k] = "stopNotify" THEN 1 ELSE 0)
    /\ UNCHANGED <<hostVars, devVars, trace, drainHist, stopFailed, sigHist,
                   emptiedAt>>

\* line 136: stopEvent.wait() returns
WaitStop ==
    /\ pc = "waitStop"
    /\ StopRequested
    /\ pc' = "stopNotify"
    /\ UNCHANGED <<idVars, locVars, op, sessVars, drainVars, remaining, endVars, log,
                   devVars, histVars>>

\* line 137: stop_notify returns; the `async with` block is left normally
StopNotifyOk ==
    /\ pc = "stopNotify" /\ op = "stop_notify"
    /\ notifying' = FALSE
    /\ pc' = "disconnect" /\ op' = "none"
    /\ UNCHANGED <<idVars, locVars, connected, sessions, handlers, stopEvent,
                   drainVars, remaining, endVars, log, devVars, histVars>>

\* lines 68-73 called from line 147 or line 160, then the test of line 151
\* and, when the loop is left, lines 162-166
ReadCountsOk ==
    /\ pc = "readCounts" /\ op = "read_pressureCounts"
    /\ counts' = CountValue
    /\ i' = 0
    /\ IF LoopCond(CountValue)
          THEN pc' = "readHistory" /\ localTime' = localTime
          ELSE pc' = "readDeviceTime" /\ localTime' \in LocalTimes
    /\ op' = "none"
    /\ log' = log \cup {"found"}
    /\ countsSeen' = Append(countsSeen, CountValue)
    /\ base' = IF countsSeen = <<>> THEN Len(devLog) - Len(devBuf) ELSE base
    /\ zeroAt' = Len(devLog)
    /\ UNCHANGED <<idVars, locVars, sessVars, dataList, data, outfile, nWrites,
                   remaining, endVars, devVars, trace, nTimeReads, timeSeen,
                   scanHist, sigHist, emptiedAt>>

\* lines 155-157: one pressureHistory read of the batch
ReadHistoryOk ==
    /\ pc = "readHistory" /\ op = "read_pressureHistory"
    /\ dataList' = AppendSample(dataList, HistoryEntry)
    /\ devBuf' = IF devBuf # <<>> THEN Tail(devBuf) ELSE devBuf
    /\ i' = i + 1
    /\ pc' = IF BatchDone(i + 1, counts) THEN "readCounts" ELSE "readHistory"
    /\ op' = "none"
    /\ UNCHANGED <<idVars, locVars, sessVars, counts, localTime, data, outfile,
                   nWrites, remaining, endVars, log, devLog, devClock,
                   devInterval, trace, countsSeen, base, zeroAt, nTimeReads,
                   timeSeen, scanHist, sigHist, emptiedAt>>

\* lines 167-182: the deviceTime read returns, the samples are converted
\* and written; data[:,1] raises IndexError on an array without rows
ReadDeviceTimeOk ==
    /\ pc = "readDeviceTime" /\ op = "read_deviceTime"
    /\ nTimeReads' = nTimeReads + 1
    /\ timeSeen' = devClock
    /\ log' = log \cup {"timediff"}
    /\ IF dataList = <<>>
          THEN /\ RaiseInSession("IndexError")
               /\ UNCHANGED <<data, outfile, nWrites>>
          ELSE /\ data' = Reconcile(dataList,
                                    SecSub(localTime, MsToSeconds(devClock)))
               /\ outfile' = WriteFile(outfile, data', args.overwrite)
               /\ nWrites' = nWrites + 1
               /\ pc' = "disconnect" /\ op' = "none"
               /\ UNCHANGED endVars
    /\ UNCHANGED <<idVars, locVars, sessVars, counts, i, dataList, localTime,
                   remaining, devVars, trace, countsSeen, base, zeroAt,
                   scanHist, sigHist, emptiedAt>>

\* line 96, BleakClient.__aexit__: the session is closed; then either
\* line 186 and a normal return, or the pending exception propagates
DisconnectDone ==
    /\ pc = "disconnect" /\ op = "disconnect"
    /\ connected' = FALSE
    /\ notifying' = FALSE
    /\ pc' = "exited" /\ op' = "none"
    /\ exitStatus' = StatusOf(cause)
    /\ log' = IF cause = "none" THEN log \cup {"disconnected"} ELSE log
    /\ UNCHANGED <<idVars, locVars, sessions, handlers, stopEvent, drainVars,
                   remaining, cause, devVars, histVars>>

(***************************************************************************)
(* Signals                                                                 *)
(***************************************************************************)
\* SIGINT or SIGTERM is delivered to the process.
\*  - after line 135 both run stopEvent.set;
\*  - before, SIGTERM has its default disposition and ends the process at
\*    once, and SIGINT makes asyncio.run (line 225) cancel the main task:
\*    the await it is at raises, and an await inside __aexit__ is abandoned.
Signal(sig) ==
    /\ pc \notin Ended
    /\ nSignals < MaxSignals
    /\ nSignals' = nSignals + 1
    /\ sigConn' = (sigConn \/ connected)
    /\ sigWait' = (sigWait \/ (pc = "waitStop" /\ notifying))
    /\ IF handlers
          THEN /\ stopEvent' = TRUE
               /\ UNCHANGED <<pc, op, endVars>>
          ELSE /\ stopEvent' = stopEvent
               /\ IF sig = "SIGTERM"
                     THEN /\ pc' = "killed" /\ op' = "none"
                          /\ cause' = "SIGTERM" /\ exitStatus' = 143
                     ELSE IF connected /\ pc # "disconnect"
                             THEN RaiseInSession("SIGINT")
                             ELSE RaiseOutside("SIGINT")
    /\ UNCHANGED <<idVars, locVars, connected, sessions, notifying, handlers,
                   drainVars, remaining, log, devVars, trace, drainHist,
                   scanHist, emptiedAt>>

Next ==
    \/ Issue
    \/ GetDeviceOk
    \/ GetDeviceFail
    \/ Advertise
    \/ DiscoverDone
    \/ Select
    \/ SelectCancel
    \/ ConnectOk
    \/ ConnectFail
    \/ ReadIntervalOk
    \/ WriteIntervalOk
    \/ ReadCurrCountsOk
    \/ GattFail
    \/ StartNotifyOk
    \/ Notify
    \/ WaitStop
    \/ StopNotifyOk
    \/ ReadCountsOk
    \/ ReadHistoryOk
    \/ ReadDeviceTimeOk
    \/ DisconnectDone
    \/ \E sig \in Signals : Signal(sig)
    \/ DeviceAppend
    \/ Rerun

Spec == Init /\ [][Next]_vars

\* the event loop resumes the main task whenever the await it is suspended
\* on can return, and the device answers a read that was issued
FairSpec ==
    /\ Spec
    /\ WF_vars(Issue)
    /\ WF_vars(ReadCountsOk)
    /\ WF_vars(ReadHistoryOk)


(***************************************************************************)
(* Observations used by the properties                                     *)
(***************************************************************************)
\* how often position p issued its operation in this run
Issued(p) == Cardinality({k \in 1..Len(trace) : trace[k] = p})

\* pressureHistory reads issued after the n-th readCounts call was issued
\* and before the next one
IssuedAfter(n) ==
    Cardinality({k \in 1..Len(trace) :
                    /\ trace[k] = "readHistory"
                    /\ Cardinality({j \in 1..k : trace[j] = "readCounts"}) = n})

RECURSIVE SumSeq(_)
SumSeq(q) == IF q = <<>> THEN 0 ELSE Head(q) + SumSeq(Tail(q))

\* the loop of line 151 has been left (line 166 has run)
DrainFinished == localTime # NoTime

\* position k comes before position m in the trace
Before(p, q) ==
    \E k, m \in 1..Len(trace) : k < m /\ trace[k] = p /\ trace[m] = q

(***************************************************************************)
(* C1  Download-mode drain.  When the count reads return C1, ..., Cn, 0    *)
(* with every Ci > 0, exactly Ci pressureHistory reads are issued between  *)
(* the i-th count read and the next, the number of samples appended is     *)
(* C1 + ... + Cn, the read after the last batch observes 0, and no         *)
(* pressureHistory or pressureCounts read is issued after it.              *)
(***************************************************************************)
C1_DrainFollowsCounts ==
    /\ \A n \in 1..(Len(countsSeen) - 1) :
          countsSeen[n] > 0 /\ IssuedAfter(n) = countsSeen[n]
    /\ countsSeen # <<>> =>
          IssuedAfter(Len(countsSeen)) <= countsSeen[Len(countsSeen)]
    /\ DrainFinished =>
          /\ countsSeen # <<>>
          /\ countsSeen[Len(countsSeen)] = 0
          /\ Issued("readCounts") = Len(countsSeen)
          /\ Issued("readHistory") = SumSeq(countsSeen)
          /\ Len(dataList) = SumSeq(countsSeen)

C1_Witness ==
    /\ DrainFinished
    /\ countsSeen \in {<<1, 1, 0>>, <<2, 0>>}
    /\ pc = "exited" /\ cause = "none"

(***************************************************************************)
(* C2  Drain under concurrent device appends.  With the device a FIFO of   *)
(* unread entries, when the drain loop has ended the Sample Set is the     *)
(* sequence of the entries that were unread or appended before the final   *)
(* zero count read, in the order the device appended them: none skipped,   *)
(* duplicated or reordered.                                                *)
(***************************************************************************)
C2_DrainIsFifo ==
    DrainFinished => dataList = SubSeq(devLog, base + 1, zeroAt)

C2_Witness ==
    /\ DrainFinished
    /\ countsSeen = <<1, 1, 0>>
    /\ Len(dataList) = 2
    /\ base = 0

(***************************************************************************)
(* C3  Teardown on failure.  A run that ends with the error of a failed    *)
(* GATT operation (or of the post-processing) has closed its session:      *)
(* the disconnect was issued after the failure and the session is not      *)
(* open when the error leaves the run.                                     *)
(***************************************************************************)
C3_TeardownOnFailure ==
    (pc \in Ended /\ cause \in {"gatt", "IndexError"}) =>
        /\ ~connected
        /\ trace # <<>> /\ trace[Len(trace)] = "disconnect"

C3_Witness ==
    /\ pc = "exited" /\ cause = "gatt"
    /\ Issued("readHistory") = 2
    /\ Len(dataList) = 1

(***************************************************************************)
(* C4  Teardown on signal.  At most one session is opened in a run, and    *)
(* a run that received SIGINT or SIGTERM while its session was open has    *)
(* closed the session when the process has ended.                          *)
(***************************************************************************)
C4_TeardownOnSignal ==
    /\ sessions <= 1
    /\ (pc \in Ended /\ sigConn) => ~connected

(***************************************************************************)
(* C5  Scan-mode shutdown sequence.  A run that received SIGINT or         *)
(* SIGTERM while subscribed and waiting ends having issued stop_notify     *)
(* and then the disconnect, in that order, with the session closed, exit   *)
(* status 0 and no error.                                                  *)
(***************************************************************************)
C5_ScanShutdown ==
    (pc \in Ended /\ sigWait) =>
        /\ Before("stopNotify", "disconnect")
        /\ ~Before("disconnect", "stopNotify")
        /\ ~connected
        /\ exitStatus = 0 /\ cause = "none"

(***************************************************************************)
(* C6  No notification is processed by the callback once stop_notify has   *)
(* been issued, also while that call has not yet returned.                 *)
(***************************************************************************)
C6_NoNotificationAfterUnsubscribe == notifAfterStop = 0

(***************************************************************************)
(* C7  A failure of stop_notify is logged and the run carries on with its  *)
(* cleanup: the session is closed, the final "Disconnected" record is      *)
(* logged and the run ends without an error.                               *)
(***************************************************************************)
C7_UnsubscribeFailureContinues ==
    (pc \in Ended /\ stopFailed) =>
        /\ ~connected
        /\ "disconnected" \in log
        /\ exitStatus = 0 /\ cause = "none"

(***************************************************************************)
(* C8  Scan mode leaves the subscribed wait only on a signal.  Once        *)
(* start_notify has returned, the run is past the wait of line 136 (it     *)
(* unsubscribes, disconnects or has ended) only if SIGINT or SIGTERM was   *)
(* delivered while it was subscribed and waiting; notifications alone      *)
(* never end the wait.                                                     *)
(***************************************************************************)
C8_ScanEndsOnlyOnSignal ==
    /\ (handlers /\ pc # "waitStop") => (sigWait /\ stopEvent)
    /\ (args.mode = "scan" /\ (Issued("stopNotify") > 0 \/ pc \in Ended)
          /\ handlers) => sigWait

C8_Witness ==
    /\ handlers /\ pc = "waitStop"
    /\ nNotif = MaxNotif
    /\ ~stopEvent

(***************************************************************************)
(* C9  Drain idempotence, as amended.  A run whose drain starts after an   *)
(* earlier drain observed a count of 0, with nothing appended since,       *)
(* issues exactly one pressureCounts read, which observes 0, issues no     *)
(* pressureHistory read, and leaves the Sample Set empty.                  *)
(***************************************************************************)
C9_RerunReadsCountOnce ==
    (emptiedAt >= 0 /\ DrainFinished /\ zeroAt = emptiedAt) =>
        /\ countsSeen = <<0>>
        /\ Issued("readCounts") = 1
        /\ Issued("readHistory") = 0
        /\ dataList = <<>>

C9_Witness ==
    /\ emptiedAt >= 1
    /\ DrainFinished
    /\ zeroAt = emptiedAt
    /\ Issued("readDeviceTime") = 1

\* C9 as stated: the re-run performs no characteristic read at all
C9_RerunNoReads ==
    (emptiedAt >= 0 /\ Len(devLog) = emptiedAt) =>
        (Issued("readCounts") = 0 /\ Issued("readHistory") = 0)

(***************************************************************************)
(* C10  Clock reconciliation.  deviceTime is read at most once in a run,   *)
(* only after a count read observed 0, and exactly once in a download run  *)
(* that completes; every written row keeps its sample's pressure and       *)
(* position and carries, in milliseconds, T - deviceTime + r, where T is   *)
(* localTime and r the sample's relative timestamp.                        *)
(***************************************************************************)
C10_ClockReconciliation ==
    /\ nTimeReads <= 1 /\ Issued("readDeviceTime") <= 1
    /\ Issued("readDeviceTime") > 0 =>
          /\ args.mode = "download"
          /\ countsSeen # <<>> /\ countsSeen[Len(countsSeen)] = 0
    /\ (args.mode = "download" /\ pc = "exited" /\ cause = "none") =>
          (nTimeReads = 1 /\ nWrites = 1)
    /\ nWrites > 0 =>
          /\ nTimeReads = 1
          /\ Len(data) = Len(dataList)
          /\ outfile.rows = data
          /\ \A k \in 1..Len(data) :
                /\ data[k][1] = dataList[k][1]
                /\ data[k][2].ms \in 0..999
                /\ SecToMs(data[k][2]) =
                      SecToMs(localTime) - timeSeen + dataList[k][2]

\* deviceTime = 1000 ms read at T = 1000.6 s, r = 500 ms: T - 1.0 + 0.5
C10_Witness ==
    /\ nWrites = 1
    /\ timeSeen = 1000
    /\ localTime = [s |-> 1000, ms |-> 600]
    /\ Len(dataList) = 2
    /\ dataList[1][2] = 500
    /\ data[1][2] = [s |-> 1000, ms |-> 100]

(***************************************************************************)
(* C11  Device-resolution failure is fatal and single-shot.  When the      *)
(* lookup by address finds no device, or the discovery scan leaves no      *)
(* device after the RSSI filter, the process ends with exit status 1; the  *)
(* lookup or scan was issued once and nothing else was: no connection is   *)
(* opened and no GATT operation is issued in that run.                     *)
(***************************************************************************)
C11_ResolutionFailureIsFatal ==
    /\ []("notfound" \in log =>
             /\ pc = "exited" /\ op = "none"
             /\ cause = "SystemExit" /\ exitStatus = 1
             /\ sessions = 0 /\ ~connected
             /\ trace = <<(IF args.addr # "" THEN "getDevice" ELSE "discover")>>)
    /\ [][(/\ pc = "discover" /\ op = "discover"
           /\ pc' # "discover" /\ run' = run /\ nSignals' = nSignals
           /\ \A e \in devices : e[2] <= args.rssi)
          => ("notfound" \in log' /\ pc' = "exited" /\ exitStatus' = 1)]_vars

\* a device was heard at exactly the minimum RSSI and none above it
C11_Witness ==
    /\ "notfound" \in log
    /\ args.addr = ""
    /\ \E e \in devices : e[2] = args.rssi

(***************************************************************************)
(* C12  Interactive discovery selection.  A device returned by             *)
(* discoverDevice was heard in the scan with a signal strength strictly    *)
(* greater than the minimum; when exactly one device passes the filter it  *)
(* is returned without the menu, when several pass the menu is shown with  *)
(* exactly these and the operator's choice among them is returned; the     *)
(* scan is issued exactly once.                                            *)
(***************************************************************************)
C12_DiscoverySelection ==
    /\ [](/\ Issued("discover") <= 1
          /\ (args.addr = "" /\ device # "") => Issued("discover") = 1)
    /\ [][run' = run =>
          /\ (args.addr = "" /\ device' # device) =>
                \E e \in devices : e[1] = device' /\ e[2] > args.rssi
          /\ (/\ pc = "discover" /\ op = "discover"
              /\ pc' # "discover" /\ nSignals' = nSignals) =>
                LET pass == {e \in devices : e[2] > args.rssi} IN
                   /\ Cardinality(pass) = 1 =>
                         /\ pc' = "connect"
                         /\ \E e \in pass : device' = e[1]
                   /\ Cardinality(pass) > 1 =>
                         /\ pc' = "select"
                         /\ device' = device
                         /\ devices' = pass
          /\ (pc = "select" /\ pc' = "connect") =>
                /\ Cardinality(devices) > 1
                /\ \E e \in devices : e[1] = device']_vars

\* with a minimum of -70 a device was returned and connected to
C12_Witness ==
    /\ args.addr = "" /\ args.rssi = -70
    /\ device = "nano2"
    /\ connected

(***************************************************************************)
(* C13  Interval configurator.  It runs if and only if an interval was     *)
(* requested, a requested interval of 0 included.  Its operations are, in  *)
(* this order and once each, the interval read, the interval write and the *)
(* pressureCounts read; the write is left either acknowledged, with the    *)
(* device holding the requested interval, or by a failure that ends the    *)
(* run, and no scan or download operation is issued before the three.  The *)
(* logged remaining time is (16384 - count) * interval, with 0.1 s in      *)
(* place of an interval of 0: 1628.4 s for interval 0 and count 100.       *)
(***************************************************************************)
C13_IntervalConfigurator ==
    /\ [](LET requested == args.interval # <<>>
              cfgPcs    == {"readInterval", "writeInterval", "readCurrCounts"}
              modePcs   == GattPcs \ cfgPcs
              modePc    == IF args.mode = "scan" THEN "startNotify"
                                                 ELSE "readCounts"
              step(p)   == CASE p = "connect"        -> IF requested
                                                           THEN "readInterval"
                                                           ELSE modePc
                             [] p = "readInterval"   -> "writeInterval"
                             [] p = "writeInterval"  -> "readCurrCounts"
                             [] p = "readCurrCounts" -> modePc
          IN
          /\ \A p \in cfgPcs : Issued(p) <= 1 /\ (Issued(p) = 1 => requested)
          /\ \A k \in 1..(Len(trace) - 1) :
                trace[k] \in cfgPcs \cup {"connect"} =>
                   trace[k + 1] \in {step(trace[k]), "disconnect"}
          /\ (requested /\ \E p \in modePcs : Issued(p) > 0) =>
                /\ \A p \in cfgPcs : Issued(p) = 1
                /\ remaining # -1
          /\ "remaining" \in log <=> remaining # -1
          /\ remaining # -1 =>
                /\ requested /\ curr_counts >= 0
                /\ remaining = (16384 - curr_counts) *
                      (IF args.interval[1] = 0 THEN 1 ELSE 10 * args.interval[1])
          /\ RemainingTenths(100, 0) = 16284)
    /\ [][(pc = "writeInterval" /\ pc' # "writeInterval" /\ run' = run) =>
             \/ /\ op = "write_interval" /\ op' = "none"
                /\ pc' = "readCurrCounts"
                /\ devInterval' = args.interval[1]
             \/ /\ pc' \in {"disconnect", "exited", "killed"}
                /\ cause' # "none"]_vars

\* interval 0 requested with two entries buffered: 16382 * 0.1 s are
\* logged, then the drain starts
C13_Witness ==
    /\ args.interval = <<0>>
    /\ curr_counts = 2
    /\ remaining = 16382
    /\ Issued("readCounts") = 1

(***************************************************************************)
(* C14  At most one BLE transport operation issued by the host is in       *)
(* flight: an operation is issued only while none is in flight, and the    *)
(* one in flight is replaced by nothing but its own completion or failure. *)
(***************************************************************************)
C14_OneOperationInFlight ==
    [][run' = run =>
          /\ trace' # trace =>
                /\ op = "none" /\ op' # "none"
                /\ trace' = Append(trace, pc)
          /\ (op = "none" /\ op' # "none") => trace' # trace
          /\ (op # "none" /\ op' # op) => op' = "none"]_vars

\* a history read is in flight after the operations before it have ended
C14_Witness ==
    /\ op = "read_pressureHistory"
    /\ Len(trace) >= 4
    /\ Issued("readHistory") = 2

(***************************************************************************)
(* C15  Drain termination.  With reads that are answered and a device      *)
(* that at some count read has no unread entry, a drain that has started   *)
(* leaves its loop unless a failure or a signal ends the run first; and    *)
(* the loop is left, deviceTime is read and the output is written only     *)
(* after a count read has returned 0, the latest one.                      *)
(***************************************************************************)
C15_DrainTermination ==
    /\ []((\/ DrainFinished
           \/ Issued("readDeviceTime") > 0
           \/ nTimeReads > 0
           \/ nWrites > 0)
          <=> (countsSeen # <<>> /\ countsSeen[Len(countsSeen)] = 0))
    /\ ((args.mode = "download" /\ pc = "readCounts")
           ~> (DrainFinished \/ cause # "none"))

\* the loop was left after two batches of one entry and a count of 0
C15_Witness ==
    /\ pc = "readDeviceTime"
    /\ countsSeen = <<1, 1, 0>>
    /\ Len(dataList) = 2
    /\ cause = "none"

(***************************************************************************)
(* C16  The modes exclude each other.  A scan-mode run issues no           *)
(* pressureHistory read, no deviceTime read and no pressureCounts read     *)
(* other than the interval configurator's, keeps no sample and never       *)
(* opens the output file; a download-mode run never registers or removes   *)
(* a notification handler and processes no notification.                   *)
(***************************************************************************)
C16_ModesExclusive ==
    /\ args.mode = "scan" =>
          /\ Issued("readCounts") = 0 /\ countsSeen = <<>>
          /\ Issued("readHistory") = 0
          /\ Issued("readDeviceTime") = 0 /\ nTimeReads = 0
          /\ Issued("readCurrCounts") > 0 => args.interval # <<>>
          /\ dataList = <<>> /\ data = <<>>
          /\ nWrites = 0 /\ outfile = [kept |-> TRUE, rows |-> <<>>]
          /\ pc \notin {"readCounts", "readHistory", "readDeviceTime"}
    /\ args.mode = "download" =>
          /\ Issued("startNotify") = 0 /\ Issued("stopNotify") = 0
          /\ ~notifying /\ nNotif = 0
          /\ pc \notin {"startNotify", "waitStop", "stopNotify"}

\* a scan run that configured the interval, processed notifications and
\* ended
C16_Witness ==
    /\ args.mode = "scan"
    /\ Issued("readCurrCounts") = 1
    /\ nNotif = 2
    /\ Len(devBuf) = 2
    /\ pc = "exited"

(***************************************************************************)
(* C17  A download run whose first count read returns 0 issues no          *)
(* pressureHistory read, reads deviceTime once, writes the empty sample    *)
(* set to the output without an error and ends normally after the          *)
(* disconnect.  (Stated for runs in which the deviceTime read succeeded    *)
(* and no signal was delivered.)                                           *)
(***************************************************************************)
C17_EmptyDownloadCompletes ==
    (/\ args.mode = "download"
     /\ countsSeen = <<0>>
     /\ nTimeReads = 1
     /\ nSignals = 0
     /\ pc = "exited") =>
        /\ Issued("readHistory") = 0
        /\ Issued("readDeviceTime") = 1
        /\ cause = "none" /\ exitStatus = 0
        /\ nWrites = 1 /\ outfile.rows = <<>>
        /\ "disconnected" \in log

(***************************************************************************)
(* C18  All-or-nothing persistence.  The output file is opened and written *)
(* at most once in a run, in download mode, after the latest count read    *)
(* returned 0 and the deviceTime read succeeded; in a run in which a read  *)
(* failed or that was interrupted before that, the file holds what it held *)
(* before the run and none of the samples drained.                         *)
(***************************************************************************)
C18_AllOrNothing ==
    /\ nWrites <= 1
    /\ nWrites = 1 =>
          /\ args.mode = "download"
          /\ DrainFinished
          /\ countsSeen # <<>> /\ countsSeen[Len(countsSeen)] = 0
          /\ nTimeReads = 1
          /\ outfile.rows = data /\ Len(data) = Len(dataList)
    /\ nWrites = 0 => outfile = [kept |-> TRUE, rows |-> <<>>]
    /\ (cause # "none" /\ nTimeReads = 0) => nWrites = 0

\* two samples were drained, then the deviceTime read failed: the run has
\* ended and the file was not opened
C18_Witness ==
    /\ pc = "exited" /\ cause = "gatt"
    /\ Len(dataList) = 2
    /\ Issued("readDeviceTime") = 1 /\ nTimeReads = 0
    /\ nWrites = 0

============================================================================
